---------------------------- MODULE Spec2Model ----------------------------
(***************************************************************************)
(* Event routing and dispatch of slack-machine: machine/handlers.py and    *)
(* the Message context of machine/plugins/base.py.                         *)
(*                                                                         *)
(* Strings are sequences of one-character strings.  A Python dict is a     *)
(* function whose DOMAIN is the set of keys present.  An optional value    *)
(* (None or a value) is the empty sequence or a one-element sequence.      *)
(***************************************************************************)
EXTENDS Integers, Sequences, FiniteSets, TLC

\* ------------------------------------------------------------ bounds
\* longest free tail appended to a message-body head
MaxTail == 3
\* longest "actions" list of an interactive payload
MaxActions == 2

\* ------------------------------------------------------------ values
None == <<>>
Some(v) == <<v>>

\* the characters message bodies are made of; WordChars are those \w matches
WordChars == {"U", "b", "a"}
Chars == WordChars \cup {":", " ", "<", "@", ">"}

\* the bot's identity, as handed to create_message_handler
BotId == <<"U">>
BotName == <<"b">>
\* a user other than the bot, known to the user directory
OtherUser == <<"a">>
\* a user identifier the user directory does not hold
UnknownUser == <<"b", "b">>
\* SlackClient.users: the identifiers the directory resolves
KnownUsers == {BotId, OtherUser}

\* ------------------------------------------------------------ dicts
Has(d, k) == k \in DOMAIN d
Put(d, k, v) == [x \in (DOMAIN d) \cup {k} |-> IF x = k THEN v ELSE d[x]]
Merge(d, e) == [x \in (DOMAIN d) \cup (DOMAIN e) |-> IF x \in DOMAIN e THEN e[x] ELSE d[x]]
EmptyDict == [x \in {} |-> None]

\* ------------------------------------------------------------ strings
Drop(s, n) == SubSeq(s, n + 1, Len(s))
IsPrefix(p, s) == Len(p) <= Len(s) /\ SubSeq(s, 1, Len(p)) = p

\* str.split(sep) for a one-character separator
RECURSIVE Split(_, _)
Split(s, sep) ==
    IF \E i \in 1..Len(s) : s[i] = sep
    THEN LET i == CHOOSE k \in 1..Len(s) : s[k] = sep /\ \A j \in 1..(k - 1) : s[j] # sep
         IN  <<SubSeq(s, 1, i - 1)>> \o Split(Drop(s, i), sep)
    ELSE <<s>>

\* length of the longest run of word characters of s that starts at position i
WordRunLen(s, i) ==
    CHOOSE n \in 0..(Len(s) - i + 1) :
        /\ \A k \in 0..(n - 1) : s[i + k] \in WordChars
        /\ (i + n > Len(s) \/ s[i + n] \notin WordChars)

\* re.search of a literal pattern: the pattern occurs somewhere in the text
Search(pattern, text) ==
    \E i \in 0..(Len(text) - Len(pattern)) : SubSeq(text, i + 1, i + Len(pattern)) = pattern

\* ------------------------------------------------------------ mention matcher
\* The compiled pattern  ^(?:<@(?P<atuser>\w+)>:?|(?P<username>\w+):|(?P<alias>a1|a2|..)) ?(?P<text>.*)$
\* (re.DOTALL) is kept as its list of escaped alias alternatives, None when the
\* settings hold no ALIASES and the pattern has no alias group.
generate_message_matcher(settings) ==
    IF Has(settings, "ALIASES")
    THEN [alias_alternatives |-> Some(Split(settings["ALIASES"], ","))]
    ELSE [alias_alternatives |-> None]

\* <@(?P<atuser>\w+)>:?  at the start of s: the number of characters it consumes, 0 when it does not match
AtUserEnd(s) ==
    IF Len(s) >= 4 /\ s[1] = "<" /\ s[2] = "@"
    THEN LET n == WordRunLen(s, 3)
         IN  IF n >= 1 /\ Len(s) >= 3 + n /\ s[3 + n] = ">"
             THEN IF Len(s) >= 4 + n /\ s[4 + n] = ":" THEN 4 + n ELSE 3 + n
             ELSE 0
    ELSE 0

\* (?P<username>\w+):  at the start of s: the number of characters it consumes, 0 when it does not match
UserNameEnd(s) ==
    IF Len(s) >= 2
    THEN LET n == WordRunLen(s, 1)
         IN  IF n >= 1 /\ Len(s) >= n + 1 /\ s[n + 1] = ":" THEN n + 1 ELSE 0
    ELSE 0

\* (?P<alias>a1|a2|..): the index of the first alternative, in order, that is a prefix of s; 0 when none is
AliasIndex(alts, s) ==
    IF \E i \in 1..Len(alts) : IsPrefix(alts[i], s)
    THEN CHOOSE i \in 1..Len(alts) : IsPrefix(alts[i], s) /\ \A j \in 1..(i - 1) : ~IsPrefix(alts[j], s)
    ELSE 0

\* a tail that keeps the separating space in the text
RestText_KeepSpace(s, n) == Drop(s, n)

\* " ?(?P<text>.*)$" applied to what follows the first n characters of s
RestText(s, n) ==
    LET rest == Drop(s, n)
    IN  IF Len(rest) >= 1 /\ rest[1] = " " THEN Drop(rest, 1) ELSE rest

\* message_matcher.match(full_text): None, or Some(groupdict) with every named group
\* an optional string.  The alternatives are tried in the pattern's order, and the
\* tail of the pattern matches whatever follows, so the first alternative that
\* matches a prefix decides.
MatcherMatch(matcher, s) ==
    LET alts == IF matcher.alias_alternatives = None THEN <<>> ELSE matcher.alias_alternatives[1]
        a1 == AtUserEnd(s)
        a2 == UserNameEnd(s)
        a3 == AliasIndex(alts, s)
    IN  IF a1 > 0
        THEN Some([atuser |-> Some(SubSeq(s, 3, 2 + WordRunLen(s, 3))), username |-> None,
                   alias |-> None, text |-> Some(RestText(s, a1))])
        ELSE IF a2 > 0
        THEN Some([atuser |-> None, username |-> Some(SubSeq(s, 1, a2 - 1)),
                   alias |-> None, text |-> Some(RestText(s, a2))])
        ELSE IF a3 > 0
        THEN Some([atuser |-> None, username |-> None,
                   alias |-> Some(alts[a3]), text |-> Some(RestText(s, Len(alts[a3])))])
        ELSE None

\* ------------------------------------------------------------ classification
\* a classification that does not test whom a channel message names
_check_bot_mention_AnyTarget(event, bot_name, bot_id, message_matcher) ==
    LET m == MatcherMatch(message_matcher, IF Has(event, "text") THEN event["text"] ELSE <<>>)
    IN  IF m # None THEN Some(Put(event, "text", m[1].text[1]))
        ELSE IF event["channel_type"] \in {"channel", "group"} THEN None ELSE Some(event)

\* a classification that forgets that an alias names the bot
_check_bot_mention_NoAlias(event, bot_name, bot_id, message_matcher) ==
    LET m == MatcherMatch(message_matcher, IF Has(event, "text") THEN event["text"] ELSE <<>>)
    IN  IF event["channel_type"] \in {"channel", "group"}
        THEN IF m = None THEN None
             ELSE IF m[1].atuser # Some(bot_id) /\ m[1].username # Some(bot_name) THEN None
             ELSE Some(Put(event, "text", m[1].text[1]))
        ELSE IF m # None THEN Some(Put(event, "text", m[1].text[1])) ELSE Some(event)

\* a classification that treats a direct message like a channel message
_check_bot_mention_DmLikeChannel(event, bot_name, bot_id, message_matcher) ==
    LET m == MatcherMatch(message_matcher, IF Has(event, "text") THEN event["text"] ELSE <<>>)
    IN  IF m = None THEN None
        ELSE IF /\ ~(m[1].alias # None /\ m[1].alias[1] # <<>>)
                /\ m[1].atuser # Some(bot_id)
                /\ m[1].username # Some(bot_name)
        THEN None
        ELSE Some(Put(event, "text", m[1].text[1]))

\* a classification that answers for an addressed message without writing the
\* remainder into the event
_check_bot_mention_KeepsFullText(event, bot_name, bot_id, message_matcher) ==
    LET full_text == IF Has(event, "text") THEN event["text"] ELSE <<>>
        channel_type == event["channel_type"]
        m == MatcherMatch(message_matcher, full_text)
    IN  IF channel_type = "channel" \/ channel_type = "group"
        THEN IF m = None
             THEN None
             ELSE LET matches == m[1]
                      alias == matches.alias
                      atuser == IF alias # None /\ alias[1] # <<>> THEN Some(bot_id) ELSE matches.atuser
                      username == matches.username
                  IN  IF atuser # Some(bot_id) /\ username # Some(bot_name)
                      THEN None
                      ELSE Some(event)
        ELSE Some(event)

\* _check_bot_mention: None, or Some(event) with the event's text rewritten in place
_check_bot_mention(event, bot_name, bot_id, message_matcher) ==
    LET full_text == IF Has(event, "text") THEN event["text"] ELSE <<>>
        channel_type == event["channel_type"]
        m == MatcherMatch(message_matcher, full_text)
    IN  IF channel_type = "channel" \/ channel_type = "group"
        THEN IF m = None
             THEN None
             ELSE LET matches == m[1]
                      alias == matches.alias
                      atuser == IF alias # None /\ alias[1] # <<>> THEN Some(bot_id) ELSE matches.atuser
                      username == matches.username
                  IN  IF atuser # Some(bot_id) /\ username # Some(bot_name)
                      THEN None
                      ELSE Some(Put(event, "text", matches.text[1]))
        ELSE IF m # None
             THEN Some(Put(event, "text", m[1].text[1]))
             ELSE Some(event)

\* a normalisation that lets the nested message's own fields win
NormalizeEdited_NestedWins(event) ==
    IF Has(event, "subtype") /\ event["subtype"] = "message_changed"
    THEN Merge([channel_type |-> event["channel_type"], channel |-> event["channel"],
                subtype |-> "message_changed"],
               event["message"])
    ELSE event

\* handle_message, lines 119-125: an edited message becomes its nested original
\* message, with the envelope's channel_type, channel and subtype written over it
NormalizeEdited(event) ==
    IF Has(event, "subtype") /\ event["subtype"] = "message_changed"
    THEN Merge(event["message"],
               [channel_type |-> event["channel_type"], channel |-> event["channel"],
                subtype |-> "message_changed"])
    ELSE event

\* a sender test that forgets the bot's own identifier
FromOtherUser_AnySender(event, bot_id) == Has(event, "user")

\* a sender test that lets an event without a sender through
FromOtherUser_MissingSenderPasses(event, bot_id) == ~Has(event, "user") \/ ~(event["user"] = bot_id)

\* handle_message, line 126: the event has a sender and it is not the bot
FromOtherUser(event, bot_id) == Has(event, "user") /\ ~(event["user"] = bot_id)

\* ------------------------------------------------------------ Message
\* Message.__init__(self, client, msg_event, plugin_class_name): its parameters after self
MessageInitParams == <<"client", "msg_event", "plugin_class_name">>

\* Message(*args): a call whose positional arguments do not fit the constructor's
\* parameters raises TypeError
Message(args) ==
    IF Len(args) = Len(MessageInitParams)
    THEN [error |-> None, value |-> [_msg_event |-> args[2], _fq_plugin_name |-> args[3]]]
    ELSE [error |-> Some("TypeError"), value |-> EmptyDict]

\* _gen_message: Message(slack_client, event, plugin_class_name, msg_type)
_gen_message(event, plugin_class_name, msg_type) ==
    Message(<<"slack_client", event, plugin_class_name, msg_type>>)

\* Message.sender: self._client.users[self._msg_event["user"]], KeyError when the
\* event has no user or the directory does not hold it
SenderResolves(msg_event) == Has(msg_event, "user") /\ msg_event["user"] \in KnownUsers

\* Message.text: self._msg_event["text"], KeyError when the event has no text
TextResolves(msg_event) == Has(msg_event, "text")

\* a loop that writes its log entry from the event before it builds the Message
InvocationError_LogsBeforeBuilding(event, class_name, msg_type, log_handled_message) ==
    IF log_handled_message /\ ~Has(event, "text") THEN Some("KeyError")
    ELSE _gen_message(event, class_name, msg_type).error

\* What the dispatch loops do with a selected handler between _gen_message and
\* handler.function(...): None when the call is made, else the error raised
InvocationError(event, class_name, msg_type, log_handled_message) ==
    LET made == _gen_message(event, class_name, msg_type)
    IN  IF made.error # None THEN made.error
        ELSE IF ~SenderResolves(made.value._msg_event) THEN Some("KeyError")
        ELSE IF log_handled_message /\ ~TextResolves(made.value._msg_event) THEN Some("KeyError")
        ELSE None

\* ------------------------------------------------------------ registry
\* plugin_actions.listen_to: the unconditional listeners, in insertion order
ListenTo ==
    << [name |-> "L1", class_name |-> "plugins.A", regex |-> <<"a">>, handle_message_changed |-> FALSE,
        group |-> Some("x"), parameters |-> {"msg", "x"}],
       [name |-> "L2", class_name |-> "plugins.B", regex |-> <<"b">>, handle_message_changed |-> TRUE,
        group |-> None, parameters |-> {"msg", "logger"}] >>

\* plugin_actions.respond_to: the mention-triggered responders, in insertion order
RespondTo ==
    << [name |-> "R1", class_name |-> "plugins.A", regex |-> <<"a">>, handle_message_changed |-> FALSE,
        group |-> Some("y"), parameters |-> {"msg", "y", "logger"}],
       [name |-> "R2", class_name |-> "plugins.B", regex |-> <<>>, handle_message_changed |-> TRUE,
        group |-> None, parameters |-> {"msg"}] >>

\* plugin_actions.block_action_react_to: the interactive-action handlers
BlockActionReactTo ==
    << [name |-> "A1", class_name |-> "plugins.A", action_id |-> "approve", parameters |-> {"msg", "logger"}],
       [name |-> "A2", class_name |-> "plugins.B", action_id |-> "reject", parameters |-> {"msg"}] >>

\* plugin_actions.process: event type -> the generic handlers registered for it
Process == [reaction_added |-> <<"P1", "P2">>, team_join |-> <<"P3">>]

Names(handlers) == [i \in 1..Len(handlers) |-> handlers[i].name]
Range(f) == {f[i] : i \in DOMAIN f}
ResponderNames == Range(Names(RespondTo))

\* ------------------------------------------------------------ dispatch loops
\* match.groupdict(): the named groups of the handler's pattern.  A pattern is a
\* literal, wrapped in one named group when the handler declares one, so the group
\* captures the literal
groupdict(handler) ==
    IF handler.group = None THEN EmptyDict ELSE [g \in {handler.group[1]} |-> handler.regex]

\* lines 196, 202-203 and 227-229: a new dict per handler, holding the named groups
\* and, when the handler's signature has a logger parameter, the logger bound to
\* the handler's qualified function name
extra_params(handler, named_groups) ==
    IF "logger" \in handler.parameters
    THEN Put(named_groups, "logger", <<handler.class_name, handler.name>>)
    ELSE named_groups

\* lines 204 and 230: handler.function(message, **extra_params).  event_object
\* names the dict object the Message holds: Message.__init__ keeps the reference
\* it is given (base.py line 299), it does not copy the dict
Invocation(handler, action, message, event_object, params) ==
    [handler |-> handler.name, action |-> action, message |-> message,
     event_object |-> event_object, extra_params |-> params]

\* a loop that hands edits to every handler
SkipsEdit_Never(event, handler) == FALSE

\* dispatch_listeners, line 191: an edit is skipped by a handler that did not opt in
SkipsEdit(event, handler) ==
    Has(event, "subtype") /\ event["subtype"] = "message_changed" /\ ~handler.handle_message_changed

\* dispatch_listeners, lines 193-194: matcher.search(event.get("text", ""))
PatternFound(event, handler) ==
    Search(handler.regex, IF Has(event, "text") THEN event["text"] ELSE <<>>)

\* dispatch_listeners, lines 188-204: the loop that builds handler_funcs.  The result
\* holds the calls made (handler_funcs), the handlers _gen_message was called for
\* (attempted) and the error that ended the loop, if any.
RECURSIVE ListenerLoop(_, _, _, _, _)
ListenerLoop(event, message_handlers, log_handled_message, handler_funcs, attempted) ==
    IF message_handlers = <<>>
    THEN [handler_funcs |-> handler_funcs, attempted |-> attempted, error |-> None]
    ELSE LET handler == Head(message_handlers)
             rest == Tail(message_handlers)
         IN  IF SkipsEdit(event, handler) \/ ~PatternFound(event, handler)
             THEN ListenerLoop(event, rest, log_handled_message, handler_funcs, attempted)
             ELSE LET err == InvocationError(event, handler.class_name, "message", log_handled_message)
                      call == [handler |-> handler.name, action |-> 0]
                  IN  IF err # None
                      THEN [handler_funcs |-> handler_funcs, attempted |-> Append(attempted, call),
                            error |-> err]
                      ELSE ListenerLoop(event, rest, log_handled_message,
                                        Append(handler_funcs,
                                               Invocation(handler, 0,
                                                          _gen_message(event, handler.class_name, "message").value,
                                                          <<"event">>,
                                                          extra_params(handler, groupdict(handler)))),
                                        Append(attempted, call))

\* a dispatch that consumes the text of the event it is given
AfterDispatchListeners_TextConsumed(event, message_handlers) ==
    [event |-> [k \in (DOMAIN event) \ {"text"} |-> event[k]], message_handlers |-> message_handlers]

\* dispatch_listeners, lines 185-206: its two arguments as a call leaves them; the
\* function reads event and message_handlers and assigns to neither
AfterDispatchListeners(event, message_handlers) ==
    [event |-> event, message_handlers |-> message_handlers]

\* dispatch_block_action_listeners, lines 216-218: the (handler, action index) pairs
\* in the order the nested loops visit them
ActionPairs(payload, block_action_handlers) ==
    LET n == Len(payload["actions"])
    IN  [k \in 1..(Len(block_action_handlers) * n) |->
            [handler |-> block_action_handlers[((k - 1) \div n) + 1], action |-> ((k - 1) % n) + 1]]

\* dispatch_block_action_listeners, lines 215-230: the loop that builds handler_funcs
RECURSIVE BlockActionLoop(_, _, _, _, _)
BlockActionLoop(payload, pairs, log_handled_message, handler_funcs, attempted) ==
    IF pairs = <<>>
    THEN [handler_funcs |-> handler_funcs, attempted |-> attempted, error |-> None]
    ELSE LET handler == Head(pairs).handler
             action == payload["actions"][Head(pairs).action]
             rest == Tail(pairs)
         IN  IF handler.action_id # action["action_id"]
             THEN BlockActionLoop(payload, rest, log_handled_message, handler_funcs, attempted)
             ELSE LET event == [action |-> action, user |-> payload["user"], channel |-> payload["channel"]]
                      err == InvocationError(event, handler.class_name, "interactive", log_handled_message)
                      call == [handler |-> handler.name, action |-> Head(pairs).action]
                  IN  IF err # None
                      THEN [handler_funcs |-> handler_funcs, attempted |-> Append(attempted, call),
                            error |-> err]
                      ELSE BlockActionLoop(payload, rest, log_handled_message,
                                           Append(handler_funcs,
                                                  Invocation(handler, Head(pairs).action,
                                                             _gen_message(event, handler.class_name, "interactive").value,
                                                             <<"event", handler.name, Head(pairs).action>>,
                                                             extra_params(handler, EmptyDict))),
                                           Append(attempted, call))

\* a comprehension that leaves out the last registered handler
EventHandlerLoop_SkipsLast(event, event_handlers) ==
    LET calls == [i \in 1..(Len(event_handlers) - 1) |->
                     [handler |-> event_handlers[i], action |-> 0, event_object |-> <<"event">>]]
    IN  [handler_funcs |-> calls, attempted |-> calls, error |-> None]

\* dispatch_event_handlers, line 236: handler_funcs = [f(event) for f in event_handlers];
\* every call is given the one event dict the dispatch was given
EventHandlerLoop(event, event_handlers) ==
    LET calls == [i \in 1..Len(event_handlers) |->
                     [handler |-> event_handlers[i], action |-> 0, event_object |-> <<"event">>]]
    IN  [handler_funcs |-> calls, attempted |-> calls, error |-> None]

\* ------------------------------------------------------------ inputs
ChannelTypes == {"channel", "group", "im"}
ChannelOf(channel_type) ==
    IF channel_type = "channel" THEN "C1" ELSE IF channel_type = "group" THEN "G1" ELSE "D1"

\* all strings of at most n characters
Strings(n) == UNION {[1..k -> Chars] : k \in 0..n}

\* the ways a message body can begin
Heads ==
    { <<>>,
      <<"<", "@", "U", ">">>, <<"<", "@", "U", ">", ":">>, <<"<", "@", "a", ">">>,
      <<"b", ":">>, <<"a">>, <<"a", "b">>, <<"a", " ">> }

\* message bodies of the mention specification: a head and a free tail
Bodies == {h \o t : h \in Heads, t \in Strings(MaxTail)}

\* message bodies of the dispatch specification
SpecTexts ==
    { <<"a">>, <<"U">>, <<"b", ":", " ", "a">>, <<"<", "@", "U", ">", " ", "b">>,
      <<"<", "@", "a", ">", " ", "a">>, <<"a", "b", " ", "a">> }

OptionalField(k, v) == IF v = None THEN EmptyDict ELSE [x \in {k} |-> v[1]]

\* a fresh message event; user and text are optional
FreshEvent(channel_type, user, text) ==
    Merge(Merge([type |-> "message", channel |-> ChannelOf(channel_type),
                 channel_type |-> channel_type, ts |-> "1"],
                OptionalField("user", user)),
          OptionalField("text", text))

\* an edited message event: the envelope of subtype message_changed around the
\* nested message; with own_fields the nested message carries channel,
\* channel_type and subtype values of its own, and a thread anchor
EditedEvent(channel_type, user, text, own_fields) ==
    [type |-> "message", subtype |-> "message_changed", channel |-> ChannelOf(channel_type),
     channel_type |-> channel_type, ts |-> "2",
     message |-> Merge(Merge(Merge([type |-> "message", ts |-> "1"],
                                   OptionalField("user", user)),
                             OptionalField("text", text)),
                       IF own_fields
                       THEN [channel |-> "C9", channel_type |-> "mpim",
                             subtype |-> "thread_broadcast", thread_ts |-> "0"]
                       ELSE EmptyDict)]

Users == {None, Some(BotId), Some(OtherUser), Some(UnknownUser)}

MessageEvents ==
    {FreshEvent(ct, u, t) : ct \in ChannelTypes, u \in Users,
                            t \in {None} \cup {Some(x) : x \in SpecTexts}}
    \cup {EditedEvent(ct, u, t, o) : ct \in ChannelTypes, u \in Users,
                                     t \in {None} \cup {Some(x) : x \in SpecTexts},
                                     o \in BOOLEAN}

GenericEvents ==
    {[type |-> ty, user |-> OtherUser] : ty \in {"reaction_added", "team_join", "pin_added"}}

ActionIds == {"approve", "reject", "other"}
Payloads ==
    {[type |-> ty, actions |-> [i \in 1..Len(ids) |-> [action_id |-> ids[i]]],
      user |-> u, channel |-> "C1"] :
        ty \in {"block_actions", "view_submission"},
        ids \in UNION {[1..k -> ActionIds] : k \in 0..MaxActions},
        u \in {OtherUser, UnknownUser}}

EventsApi(e) == [type |-> "events_api", payload |-> [event |-> e]]
Requests ==
    {EventsApi(e) : e \in MessageEvents \cup GenericEvents}
    \cup {[type |-> "interactive", payload |-> p] : p \in Payloads}
    \cup {[type |-> "hello", payload |-> EmptyDict]}

AliasSettings ==
    {EmptyDict} \cup {[ALIASES |-> a] : a \in {<<"a">>, <<"a", ",", "a", "b">>, <<"a", "b", ",", "a">>}}
SettingsOf(aliases, log) == Merge(aliases, [LOG_HANDLED_MESSAGES |-> log])

Transports == {"message_handler", "generic_event_handler", "block_actions_handler"}
\* the envelope type each transport handler acts on
Accepts(t) == IF t = "block_actions_handler" THEN "interactive" ELSE "events_api"

\* ------------------------------------------------------------ asyncio.gather
\* a gather that is done as soon as one task has finished
GatherOnDone_FirstCompleted(g, statuses) ==
    IF g = "pending" /\ \E i \in DOMAIN statuses : statuses[i] = "done" THEN "result" ELSE g

\* gather's future when a task finished without error: it gets its result once
\* every task has finished; a future that already holds an exception keeps it
GatherOnDone(g, statuses) ==
    IF g = "pending" /\ \A i \in DOMAIN statuses : statuses[i] = "done" THEN "result" ELSE g

\* gather's future when a task raised (return_exceptions is not set): the first
\* exception is set on it at once
GatherOnRaise(g) == IF g = "pending" THEN "exception" ELSE g

\* a join whose future holds the exception of the task that raised last
GatherException_LastRaised(g, exc, i) == Some(i)

\* the exception gather's future holds when task i raised: the first exception is
\* set on the pending future; once the future is done, the exception of a task
\* that raises later is retrieved and dropped
GatherException(g, exc, i) == IF g = "pending" THEN Some(i) ELSE exc

\* a join that cancels the unfinished siblings of a task that raised
AfterFailure_CancelSiblings(ts, i) ==
    [k \in DOMAIN ts |->
        IF k = i THEN [ts[k] EXCEPT !.status = "failed"]
        ELSE IF ts[k].status \in {"scheduled", "running"} THEN [ts[k] EXCEPT !.status = "cancelled"]
        ELSE ts[k]]

\* the tasks after task i raised: gather neither cancels nor touches the siblings
AfterFailure(ts, i) == [ts EXCEPT ![i].status = "failed"]

Statuses(ts) == [i \in DOMAIN ts |-> ts[i].status]

\* ------------------------------------------------------------ Message accessors
\* the outcome of a property read or a method call: a value returned or an error raised
Returns(v) == [error |-> None, value |-> v]
Raises(e) == [error |-> Some(e), value |-> None]

\* d[k] of a dict: KeyError when the key is missing
Subscript(d, k) == IF k \in DOMAIN d THEN Returns(d[k]) ELSE Raises("KeyError")

\* SlackClient.users and SlackClient.channels: the directories a Message resolves
\* its sender and its channel in
UsersDirectory == [u \in KnownUsers |-> [id |-> u]]
KnownChannels == {<<"C", "1">>, <<"G", "1">>, <<"D", "1">>}
ChannelsDirectory == [c \in KnownChannels |-> [id |-> c]]
\* a channel identifier the channel directory does not hold
UnknownChannel == <<"C", "9">>

\* User.fmt_mention: the user's identifier as a mention
fmt_mention(user) == <<"<", "@">> \o user.id \o <<">">>

\* str.startswith
startswith(s, prefix) == IsPrefix(prefix, s)

\* Message.subtype: the event's subtype, None when it has none
subtype(self) ==
    IF Has(self._msg_event, "subtype") THEN Returns(Some(self._msg_event["subtype"])) ELSE Returns(None)

\* Message.sender: self._client.users[self._msg_event["user"]]
sender(self) ==
    LET user == Subscript(self._msg_event, "user")
    IN  IF user.error # None THEN user ELSE Subscript(UsersDirectory, user.value)

\* Message.channel: self._client.channels[self._msg_event["channel"]]
channel(self) ==
    LET channel_id == Subscript(self._msg_event, "channel")
    IN  IF channel_id.error # None THEN channel_id ELSE Subscript(ChannelsDirectory, channel_id.value)

\* a classification that knows the public-channel prefix only
is_dm_PublicPrefixOnly(self) ==
    LET channel_id == Subscript(self._msg_event, "channel")
    IN  IF channel_id.error # None THEN channel_id
        ELSE Returns(~startswith(channel_id.value, <<"C">>))

\* Message.is_dm: the channel identifier begins with neither "C" nor "G"
is_dm(self) ==
    LET channel_id == Subscript(self._msg_event, "channel")
    IN  IF channel_id.error # None THEN channel_id
        ELSE Returns(~(startswith(channel_id.value, <<"C">>) \/ startswith(channel_id.value, <<"G">>)))

\* Message.at_sender: self.sender.fmt_mention()
at_sender(self) ==
    LET user == sender(self)
    IN  IF user.error # None THEN user ELSE Returns(fmt_mention(user.value))

\* Message.ts: self._msg_event["ts"]
ts(self) == Subscript(self._msg_event, "ts")

\* Message.say: the call it makes of SlackClient.send.  The ephemeral recipient is
\* resolved first, then the channel; thread_ts is passed on as it was given.
say(self, text, thread_ts, ephemeral) ==
    LET user == sender(self)
        chan == channel(self)
    IN  IF ephemeral /\ user.error # None THEN user
        ELSE IF chan.error # None THEN chan
        ELSE Returns([method |-> "send", channel |-> chan.value.id, text |-> text,
                      thread_ts |-> thread_ts,
                      ephemeral_user |-> IF ephemeral THEN Some(user.value.id) ELSE None])

\* Message.say_scheduled: the call it makes of SlackClient.send_scheduled
say_scheduled(self, text, thread_ts, ephemeral) ==
    LET user == sender(self)
        chan == channel(self)
    IN  IF ephemeral /\ user.error # None THEN user
        ELSE IF chan.error # None THEN chan
        ELSE Returns([method |-> "send_scheduled", channel |-> chan.value.id, text |-> text,
                      thread_ts |-> thread_ts,
                      ephemeral_user |-> IF ephemeral THEN Some(user.value.id) ELSE None])

\* a reply text that mentions the sender in a direct message too
_create_reply_AlwaysMentions(self, text) ==
    LET mention == at_sender(self)
    IN  IF mention.error # None THEN mention
        ELSE Returns(mention.value \o <<":", " ">> \o text)

\* Message._create_reply: "<mention>: <text>" outside a direct message, the text in one
_create_reply(self, text) ==
    LET dm == is_dm(self)
        mention == at_sender(self)
    IN  IF dm.error # None THEN dm
        ELSE IF ~dm.value
             THEN IF mention.error # None THEN mention
                  ELSE Returns(mention.value \o <<":", " ">> \o text)
             ELSE Returns(text)

\* a reply that threads whenever a thread is asked for and passes ephemeral on
reply_ThreadFirst(self, text, in_thread, ephemeral) ==
    IF in_thread
    THEN LET anchor == ts(self)
         IN  IF anchor.error # None THEN anchor
             ELSE say(self, text, Some(anchor.value), ephemeral)
    ELSE LET created == _create_reply(self, text)
         IN  IF created.error # None THEN created
             ELSE say(self, created.value, None, ephemeral)

\* Message.reply, lines 488-492
reply(self, text, in_thread, ephemeral) ==
    IF in_thread /\ ~ephemeral
    THEN LET anchor == ts(self)
         IN  IF anchor.error # None THEN anchor
             ELSE say(self, text, Some(anchor.value), FALSE)
    ELSE LET created == _create_reply(self, text)
         IN  IF created.error # None THEN created
             ELSE say(self, created.value, None, ephemeral)

\* Message.reply_scheduled, lines 521-525
reply_scheduled(self, text, in_thread, ephemeral) ==
    IF in_thread /\ ~ephemeral
    THEN LET anchor == ts(self)
         IN  IF anchor.error # None THEN anchor
             ELSE say_scheduled(self, text, Some(anchor.value), FALSE)
    ELSE LET created == _create_reply(self, text)
         IN  IF created.error # None THEN created
             ELSE say_scheduled(self, created.value, None, ephemeral)

\* Message.text: self._msg_event["text"]
text(self) == Subscript(self._msg_event, "text")

\* Message.in_thread: "thread_ts" in self._msg_event
in_thread(self) == Returns(Has(self._msg_event, "thread_ts"))

\* the properties plugin code reads
Accessors == {"sender", "channel", "text", "ts", "subtype", "is_dm", "in_thread"}
Get(self, accessor) ==
    CASE accessor = "sender" -> sender(self)
      [] accessor = "channel" -> channel(self)
      [] accessor = "text" -> text(self)
      [] accessor = "ts" -> ts(self)
      [] accessor = "subtype" -> subtype(self)
      [] accessor = "is_dm" -> is_dm(self)
      [] accessor = "in_thread" -> in_thread(self)

\* the events a Message is built over: every field the accessors read is there or not
ContextEvents ==
    {Merge(Merge(Merge(Merge(Merge(Merge([type |-> "message"],
        OptionalField("user", u)), OptionalField("channel", c)), OptionalField("text", t)),
        OptionalField("ts", s)), OptionalField("subtype", st)), OptionalField("thread_ts", th)) :
        u \in Users,
        c \in {None, Some(UnknownChannel)} \cup {Some(k) : k \in KnownChannels},
        t \in {None, Some(<<"a">>)},
        s \in {None, Some("1")},
        st \in {None, Some("message_changed")},
        th \in {None, Some("0")}}

\* the text plugin code sends, and the thread anchor it may pass to say
ReplyText == <<"h", "i">>
ThreadAnchors == {None, Some("9")}

\* ------------------------------------------------------------ state
VARIABLES
    transport,  \* the transport handler the socket client calls
    request,    \* the envelope it is called with
    settings,   \* the settings mapping: LOG_HANDLED_MESSAGES and, optionally, ALIASES
    raising,    \* the handlers whose body raises before it produces its effect
    pc,         \* where the transport handler's coroutine is
    acks,       \* the acknowledgements sent
    event,      \* handle_message's event after lines 119-125, None before that
    call,       \* the dispatch call made, None when none was
    tasks,      \* the calls asyncio.gather awaits, in scheduling order
    gather,     \* the future gather returned: "none", "pending", "result", "exception"
    effects,    \* the tasks whose handler produced its effect (a reply sent)
    error,      \* the error that left the transport handler, None when none did
    gather_exception,  \* the task whose exception gather's future holds, None when it holds none
    message,    \* a Message built over an event by plugin-facing code, None when none is
    result,     \* what the last accessor read of that Message gave, None before any read
    sent        \* what the last say/reply of that Message made of the client, None before any

vars == <<transport, request, settings, raising, pc, acks, event, call, tasks, gather, effects, error,
          gather_exception, message, result, sent>>
inputs == <<transport, request, settings, raising>>
\* the Message a plugin holds and what it read from it and sent through it
context == <<message, result, sent>>

Idle ==
    /\ pc = "start"
    /\ acks = 0
    /\ event = None
    /\ call = None
    /\ tasks = <<>>
    /\ gather = "none"
    /\ effects = {}
    /\ error = None
    /\ gather_exception = None

\* no Message is in a plugin's hands
NoContext ==
    /\ message = None
    /\ result = None
    /\ sent = None

Init ==
    /\ transport \in Transports
    /\ request \in Requests
    /\ settings \in {SettingsOf(a, l) : a \in {EmptyDict, [ALIASES |-> <<"a", ",", "a", "b">>]},
                                       l \in BOOLEAN}
    /\ raising \in SUBSET {"P1", "P2", "P3"}
    /\ Idle
    /\ NoContext

\* the mention specification: fresh messages of another user with every body
InitMention ==
    /\ transport = "message_handler"
    /\ request \in {EventsApi(FreshEvent(ct, Some(OtherUser), t)) :
                        ct \in ChannelTypes, t \in {None} \cup {Some(b) : b \in Bodies}}
    /\ settings \in {SettingsOf(a, FALSE) : a \in AliasSettings}
    /\ raising = {}
    /\ Idle
    /\ NoContext

\* ------------------------------------------------------------ actions
\* a transport handler that goes on without sending the acknowledgement
Ack_NotSent ==
    /\ pc = "start"
    /\ request.type = Accepts(transport)
    /\ pc' = "acked"
    /\ UNCHANGED <<inputs, context, acks, event, call, tasks, gather, gather_exception, effects, error>>

\* the transport handler's type test holds: the envelope is acknowledged
Ack ==
    /\ pc = "start"
    /\ request.type = Accepts(transport)
    /\ acks' = acks + 1
    /\ pc' = "acked"
    /\ UNCHANGED <<inputs, context, event, call, tasks, gather, gather_exception, effects, error>>

\* a handler that acknowledges before it tests the envelope's type
Ignore_AcknowledgesFirst ==
    /\ pc = "start"
    /\ request.type # Accepts(transport)
    /\ acks' = acks + 1
    /\ pc' = "returned"
    /\ UNCHANGED <<inputs, context, event, call, tasks, gather, gather_exception, effects, error>>

\* the transport handler's type test fails: it does nothing
Ignore ==
    /\ pc = "start"
    /\ request.type # Accepts(transport)
    /\ pc' = "returned"
    /\ UNCHANGED <<inputs, context, acks, event, call, tasks, gather, gather_exception, effects, error>>

\* a join that rejects an empty batch, as asyncio.wait does
Dispatch_EmptyBatchRejected(op, ev, handler_names, loop) ==
    /\ call' = Some([op |-> op, event |-> ev, handlers |-> handler_names,
                     attempted |-> loop.attempted, handler_funcs |-> loop.handler_funcs])
    /\ gather_exception' = None
    /\ IF loop.error # None \/ loop.handler_funcs = <<>>
       THEN /\ pc' = "raised"
            /\ error' = IF loop.error # None THEN loop.error ELSE Some("ValueError")
            /\ tasks' = <<>>
            /\ gather' = "none"
       ELSE /\ error' = None
            /\ tasks' = [i \in 1..Len(loop.handler_funcs) |->
                            [handler |-> loop.handler_funcs[i].handler,
                             action |-> loop.handler_funcs[i].action, status |-> "scheduled"]]
            /\ gather' = "pending"
            /\ pc' = "gathering"

\* the end of a dispatch operation's loop: the error leaves the operation, or
\* gather is awaited on the calls made (with none it is done at once)
Dispatch(op, ev, handler_names, loop) ==
    /\ call' = Some([op |-> op, event |-> ev, handlers |-> handler_names,
                     attempted |-> loop.attempted, handler_funcs |-> loop.handler_funcs])
    /\ gather_exception' = None
    /\ IF loop.error # None
       THEN /\ pc' = "raised"
            /\ error' = loop.error
            /\ tasks' = <<>>
            /\ gather' = "none"
       ELSE /\ error' = None
            /\ tasks' = [i \in 1..Len(loop.handler_funcs) |->
                            [handler |-> loop.handler_funcs[i].handler,
                             action |-> loop.handler_funcs[i].action, status |-> "scheduled"]]
            /\ gather' = IF loop.handler_funcs = <<>> THEN "result" ELSE "pending"
            /\ pc' = IF loop.handler_funcs = <<>> THEN "returned" ELSE "gathering"

\* message_handler, line 64 false: an event that is not a message is only acknowledged
SkipNonMessage ==
    /\ pc = "acked"
    /\ transport = "message_handler"
    /\ request.payload.event.type # "message"
    /\ pc' = "returned"
    /\ UNCHANGED <<inputs, context, acks, event, call, tasks, gather, gather_exception, effects, error>>

\* handle_message up to its await of gather: normalisation of an edit, the sender
\* test, mention classification and the loop of dispatch_listeners
HandleMessage ==
    /\ pc = "acked"
    /\ transport = "message_handler"
    /\ request.payload.event.type = "message"
    /\ LET ev == NormalizeEdited(request.payload.event)
           message_matcher == generate_message_matcher(settings)
           log == settings["LOG_HANDLED_MESSAGES"]
       IN  /\ event' = Some(ev)
           /\ IF FromOtherUser(ev, BotId)
              THEN LET respond_to_msg == _check_bot_mention(ev, BotName, BotId, message_matcher)
                       listeners == IF respond_to_msg # None THEN ListenTo \o RespondTo ELSE ListenTo
                       dispatched == IF respond_to_msg # None THEN respond_to_msg[1] ELSE ev
                   IN  Dispatch("dispatch_listeners", dispatched, Names(listeners),
                                ListenerLoop(dispatched, listeners, log, <<>>, <<>>))
              ELSE /\ pc' = "returned"
                   /\ UNCHANGED <<call, tasks, gather, gather_exception, error>>
    /\ UNCHANGED <<inputs, context, acks, effects>>

\* block_actions_handler, line 36 false: another interactive payload is only acknowledged
SkipNonBlockActions ==
    /\ pc = "acked"
    /\ transport = "block_actions_handler"
    /\ request.payload.type # "block_actions"
    /\ pc' = "returned"
    /\ UNCHANGED <<inputs, context, acks, event, call, tasks, gather, gather_exception, effects, error>>

\* handle_block_actions and the loop of dispatch_block_action_listeners
HandleBlockActions ==
    /\ pc = "acked"
    /\ transport = "block_actions_handler"
    /\ request.payload.type = "block_actions"
    /\ Dispatch("dispatch_block_action_listeners", request.payload, Names(BlockActionReactTo),
                BlockActionLoop(request.payload, ActionPairs(request.payload, BlockActionReactTo),
                                settings["LOG_HANDLED_MESSAGES"], <<>>, <<>>))
    /\ UNCHANGED <<inputs, context, acks, event, effects>>

\* generic_event_handler, line 89 false: no handler is registered for the event's type
SkipUnregistered ==
    /\ pc = "acked"
    /\ transport = "generic_event_handler"
    /\ request.payload.event.type \notin DOMAIN Process
    /\ pc' = "returned"
    /\ UNCHANGED <<inputs, context, acks, event, call, tasks, gather, gather_exception, effects, error>>

\* generic_event_handler, lines 89-92, and dispatch_event_handlers up to its await
DispatchEventHandlers ==
    /\ pc = "acked"
    /\ transport = "generic_event_handler"
    /\ request.payload.event.type \in DOMAIN Process
    /\ LET ev == request.payload.event
           event_handlers == Process[ev.type]
       IN  Dispatch("dispatch_event_handlers", ev, event_handlers, EventHandlerLoop(ev, event_handlers))
    /\ UNCHANGED <<inputs, context, acks, event, effects>>

\* the event loop runs a scheduled task to its first suspension; tasks become
\* ready in the order gather scheduled them
TaskStart(i) ==
    /\ tasks[i].status = "scheduled"
    /\ \A j \in 1..(i - 1) : tasks[j].status # "scheduled"
    /\ tasks' = [tasks EXCEPT ![i].status = "running"]
    /\ UNCHANGED <<inputs, context, pc, acks, event, call, gather, gather_exception, effects, error>>

\* a handler body that does not raise produces its effect (it sends its reply)
TaskEffect(i) ==
    /\ tasks[i].status = "running"
    /\ tasks[i].handler \notin raising
    /\ i \notin effects
    /\ effects' = effects \cup {i}
    /\ UNCHANGED <<inputs, context, pc, acks, event, call, tasks, gather, gather_exception, error>>

\* a handler body returns
TaskFinish(i) ==
    /\ tasks[i].status = "running"
    /\ i \in effects
    /\ tasks' = [tasks EXCEPT ![i].status = "done"]
    /\ gather' = GatherOnDone(gather, Statuses(tasks'))
    /\ UNCHANGED <<inputs, context, pc, acks, event, call, effects, error, gather_exception>>

\* a handler body raises
TaskRaise(i) ==
    /\ tasks[i].status = "running"
    /\ tasks[i].handler \in raising
    /\ tasks' = AfterFailure(tasks, i)
    /\ gather' = GatherOnRaise(gather)
    /\ gather_exception' = GatherException(gather, gather_exception, i)
    /\ UNCHANGED <<inputs, context, pc, acks, event, call, effects, error>>

\* the dispatch operation resumes from its await of gather and returns to the
\* transport handler, which returns to the socket client; the wake-up is queued
\* behind the first step of every task gather scheduled
Resume ==
    /\ pc = "gathering"
    /\ gather \in {"result", "exception"}
    /\ \A i \in DOMAIN tasks : tasks[i].status # "scheduled"
    /\ pc' = IF gather = "result" THEN "returned" ELSE "raised"
    /\ error' = IF gather = "result" THEN None ELSE Some("HandlerError")
    /\ UNCHANGED <<inputs, context, acks, event, call, tasks, gather, gather_exception, effects>>

TaskStep(i) ==
    /\ i \in DOMAIN tasks
    /\ (TaskStart(i) \/ TaskEffect(i) \/ TaskFinish(i) \/ TaskRaise(i))

Next ==
    \/ Ack
    \/ Ignore
    \/ SkipNonMessage
    \/ HandleMessage
    \/ SkipNonBlockActions
    \/ HandleBlockActions
    \/ SkipUnregistered
    \/ DispatchEventHandlers
    \/ \E i \in DOMAIN tasks : TaskStart(i)
    \/ \E i \in DOMAIN tasks : TaskEffect(i)
    \/ \E i \in DOMAIN tasks : TaskFinish(i)
    \/ \E i \in DOMAIN tasks : TaskRaise(i)
    \/ Resume

Spec == Init /\ [][Next]_vars

\* the indices a task of one dispatch can have
TaskIds == 1..(Len(BlockActionReactTo) * (MaxActions + 1))

\* the event loop keeps running every task and every resumed coroutine
Fairness ==
    /\ \A i \in TaskIds : WF_vars(TaskStep(i))
    /\ WF_vars(Resume)

FairSpec == Spec /\ Fairness

\* the message path alone, over every message body
NextMention == Ack \/ HandleMessage

SpecMention == InitMention /\ [][NextMention]_vars

\* ------------------------------------------------------------ a second dispatch
\* the registered listener or responder of a name
HandlerNamed(name) == CHOOSE h \in Range(ListenTo \o RespondTo) : h.name = name
Descriptors(names) == [i \in DOMAIN names |-> HandlerNamed(names[i])]

\* the caller hands the event and the handler list of a finished dispatch_listeners
\* call to dispatch_listeners once more
Redispatch ==
    /\ pc \in {"returned", "raised"}
    /\ Len(call) = 1
    /\ call[1].op = "dispatch_listeners"
    /\ LET left == AfterDispatchListeners(call[1].event, Descriptors(call[1].handlers))
           loop == ListenerLoop(left.event, left.message_handlers, settings["LOG_HANDLED_MESSAGES"],
                                <<>>, <<>>)
       IN  /\ call' = Append(call, [op |-> "dispatch_listeners", event |-> left.event,
                                    handlers |-> Names(left.message_handlers),
                                    attempted |-> loop.attempted,
                                    handler_funcs |-> loop.handler_funcs])
           /\ gather_exception' = None
           /\ IF loop.error # None
              THEN /\ pc' = "raised"
                   /\ error' = loop.error
                   /\ tasks' = <<>>
                   /\ gather' = "none"
              ELSE /\ error' = None
                   /\ tasks' = [i \in 1..Len(loop.handler_funcs) |->
                                   [handler |-> loop.handler_funcs[i].handler,
                                    action |-> loop.handler_funcs[i].action, status |-> "scheduled"]]
                   /\ gather' = IF loop.handler_funcs = <<>> THEN "result" ELSE "pending"
                   /\ pc' = IF loop.handler_funcs = <<>> THEN "returned" ELSE "gathering"
    /\ UNCHANGED <<inputs, context, acks, event, effects>>

\* message events of every kind through the message handler
InitRedispatch ==
    /\ transport = "message_handler"
    /\ request \in {EventsApi(e) : e \in MessageEvents}
    /\ settings \in {SettingsOf(a, l) : a \in {EmptyDict, [ALIASES |-> <<"a", ",", "a", "b">>]},
                                       l \in BOOLEAN}
    /\ raising = {}
    /\ Idle
    /\ NoContext

NextRedispatch == Ack \/ HandleMessage \/ Redispatch

SpecRedispatch == InitRedispatch /\ [][NextRedispatch]_vars

\* ------------------------------------------------------------ a Message in use
\* plugin-facing code builds a Message over the event: Message(client, event, name)
Construct ==
    /\ message = None
    /\ LET made == Message(<<"slack_client", request.payload.event, "plugins.A">>)
       IN  /\ made.error = None
           /\ message' = Some(made.value)
    /\ UNCHANGED <<inputs, pc, acks, event, call, tasks, gather, gather_exception, effects, error,
                   result, sent>>

\* a property of the Message is read; the properties assign to nothing
Read(accessor) ==
    /\ message # None
    /\ result' = Some([accessor |-> accessor, outcome |-> Get(message[1], accessor)])
    /\ UNCHANGED <<inputs, pc, acks, event, call, tasks, gather, gather_exception, effects, error,
                   message, sent>>

\* a say or reply of the Message: what was asked for and the call made of the
\* client, or the error raised before any call was made
Send(op, thread_anchor, threaded, ephemeral, outcome) ==
    /\ message # None
    /\ sent' = Some([op |-> op, thread_ts |-> thread_anchor, in_thread |-> threaded,
                     ephemeral |-> ephemeral, outcome |-> outcome])
    /\ UNCHANGED <<inputs, pc, acks, event, call, tasks, gather, gather_exception, effects, error,
                   message, result>>

Say ==
    \E thread_anchor \in ThreadAnchors : \E ephemeral \in BOOLEAN :
        Send("say", thread_anchor, FALSE, ephemeral,
             say(message[1], ReplyText, thread_anchor, ephemeral))

SayScheduled ==
    \E thread_anchor \in ThreadAnchors : \E ephemeral \in BOOLEAN :
        Send("say_scheduled", thread_anchor, FALSE, ephemeral,
             say_scheduled(message[1], ReplyText, thread_anchor, ephemeral))

Reply ==
    \E threaded \in BOOLEAN : \E ephemeral \in BOOLEAN :
        Send("reply", None, threaded, ephemeral,
             reply(message[1], ReplyText, threaded, ephemeral))

ReplyScheduled ==
    \E threaded \in BOOLEAN : \E ephemeral \in BOOLEAN :
        Send("reply_scheduled", None, threaded, ephemeral,
             reply_scheduled(message[1], ReplyText, threaded, ephemeral))

InitMessage ==
    /\ transport = "message_handler"
    /\ request \in {EventsApi(e) : e \in ContextEvents}
    /\ settings = SettingsOf(EmptyDict, FALSE)
    /\ raising = {}
    /\ Idle
    /\ NoContext

NextMessage ==
    \/ Construct
    \/ \E accessor \in Accessors : Read(accessor)
    \/ Say
    \/ SayScheduled
    \/ Reply
    \/ ReplyScheduled

SpecMessage == InitMessage /\ [][NextMessage]_vars

\* ------------------------------------------------------------ claims
Unfinished(i) == tasks[i].status \in {"scheduled", "running"}
Invoked == {tasks[i].handler : i \in DOMAIN tasks}
Attempted == IF call = None THEN {} ELSE {call[1].attempted[i].handler : i \in DOMAIN call[1].attempted}
Candidates == IF call = None THEN {} ELSE Range(call[1].handlers)

\* C1 as stated: a dispatch call that has returned, normally or with an error, has
\* no selected handler still scheduled or running.
C1_ReturnedOnlyAfterAllFinished ==
    pc \in {"returned", "raised"} => \A i \in DOMAIN tasks : ~Unfinished(i)

\* C1 as amended: a dispatch call that returned normally did so after every selected
\* handler finished without error; one that returned with an error made no call at
\* all (the loop raised) or has a handler that failed.
C1_NormalReturnOnlyAfterAllFinished ==
    /\ pc = "returned" => \A i \in DOMAIN tasks : tasks[i].status = "done"
    /\ pc = "raised" => (tasks = <<>> \/ \E i \in DOMAIN tasks : tasks[i].status = "failed")

C1_Witness ==
    /\ pc = "returned"
    /\ Len(tasks) = 2
    /\ \A i \in DOMAIN tasks : tasks[i].status = "done"

FailedBesideSound(i, j) ==
    IF i \in DOMAIN tasks /\ j \in DOMAIN tasks
    THEN tasks[i].status = "failed" /\ tasks[j].handler \notin raising
    ELSE FALSE
CompletedWithEffect(j) ==
    IF j \in DOMAIN tasks THEN tasks[j].status = "done" /\ j \in effects ELSE FALSE

\* C2: once a handler of a dispatch has raised, every sibling whose own body does
\* not raise still finishes, and its effect is observed.
C2_SiblingOfFailedHandlerCompletes ==
    \A i \in TaskIds : \A j \in TaskIds :
        [](FailedBesideSound(i, j) => <>CompletedWithEffect(j))

C2_Witness ==
    /\ Len(tasks) = 2
    /\ tasks[1].status = "failed"
    /\ tasks[2].status = "done"
    /\ 2 \in effects
    /\ pc = "raised"

\* C3: a message event whose sender is the bot itself, fresh or edited, leads to no
\* dispatch at all: no candidate, no Message built, no handler called, and
\* handle_message returns normally.
C3_OwnMessagesNotDispatched ==
    (/\ event # None
     /\ Has(event[1], "user")
     /\ event[1]["user"] = BotId)
    => (call = None /\ Attempted = {} /\ Invoked = {} /\ pc = "returned")

C3_Witness ==
    /\ pc = "returned"
    /\ event # None
    /\ Has(event[1], "user")
    /\ event[1]["user"] = BotId
    /\ Has(event[1], "subtype")
    /\ event[1]["channel_type"] = "im"
    /\ PatternFound(event[1], ListenTo[2])

Classified == call # None /\ call[1].op = "dispatch_listeners"
InChannel == event[1]["channel_type"] \in {"channel", "group"}
Body == IF Has(event[1], "text") THEN event[1]["text"] ELSE <<>>
DispatchedText == IF Has(call[1].event, "text") THEN Some(call[1].event["text"]) ELSE None
Addressed == ResponderNames \subseteq Candidates
Aliases == IF Has(settings, "ALIASES") THEN Split(settings["ALIASES"], ",") ELSE <<>>
AtBot == <<"<", "@">> \o BotId \o <<">">>

\* the body begins with <@name>
AtMentionFirst(b) ==
    /\ Len(b) >= 4
    /\ b[1] = "<"
    /\ b[2] = "@"
    /\ \E n \in 1..(Len(b) - 3) : (\A k \in 3..(2 + n) : b[k] \in WordChars) /\ b[3 + n] = ">"

\* the body begins with a name directly followed by a colon
NameColonFirst(b) ==
    \E n \in 1..(Len(b) - 1) : (\A k \in 1..n : b[k] \in WordChars) /\ b[n + 1] = ":"

\* the body begins with the bot's identifier as a mention, the bot's name and a
\* colon, or a configured alias
NamesBot(b) ==
    \/ IsPrefix(AtBot, b)
    \/ IsPrefix(BotName \o <<":">>, b)
    \/ \E i \in DOMAIN Aliases : Aliases[i] # <<>> /\ IsPrefix(Aliases[i], b)

Seps == {<<>>, <<" ">>}
StartsWith(t, c) == Len(t) >= 1 /\ t[1] = c
\* t is what follows the separator: without a separator it does not begin with a space
Separated(sep, t) == sep = <<>> => ~StartsWith(t, " ")

\* C5: in a channel or group a responder is a candidate, is built a Message or is
\* called only if the body begins with a mention of the bot's identifier, the
\* bot's name and a colon, or a configured alias.
C5_RespondersOnlyWhenBotNamed ==
    (/\ Classified
     /\ InChannel
     /\ (Candidates \cup Attempted \cup Invoked) \cap ResponderNames # {})
    => NamesBot(Body)

C5_Witness ==
    /\ Classified
    /\ event[1]["channel_type"] = "channel"
    /\ Addressed
    /\ "R2" \in Attempted
    /\ Body = <<"<", "@", "U", ">", "U">>

\* C6 as stated: in a channel or group, a body made of a configured alias, an
\* optional separating space and a text t is addressed with remainder t, whatever
\* t begins with.
C6_AliasAlwaysAddressed ==
    (Classified /\ InChannel)
    => \A i \in DOMAIN Aliases : \A sep \in Seps :
          LET a == Aliases[i]
              t == Drop(Body, Len(a \o sep))
          IN  (a # <<>> /\ IsPrefix(a \o sep, Body) /\ Separated(sep, t))
              => (Addressed /\ DispatchedText = Some(t))

\* C6 as amended: the same, provided the body does not begin with <@name> or with a
\* name directly followed by a colon (the pattern tries those forms first) and no
\* alias listed before this one is a prefix of the body.
C6_AliasAddressedUnlessOtherFormFirst ==
    (Classified /\ InChannel)
    => \A i \in DOMAIN Aliases : \A sep \in Seps :
          LET a == Aliases[i]
              t == Drop(Body, Len(a \o sep))
          IN  (/\ a # <<>>
               /\ IsPrefix(a \o sep, Body)
               /\ Separated(sep, t)
               /\ ~AtMentionFirst(Body)
               /\ ~NameColonFirst(Body)
               /\ \A j \in 1..(i - 1) : ~IsPrefix(Aliases[j], Body))
              => (Addressed /\ DispatchedText = Some(t))

C6_Witness ==
    /\ Classified
    /\ event[1]["channel_type"] = "group"
    /\ Aliases = << <<"a", "b">>, <<"a">> >>
    /\ Body = <<"a", "b", " ", ":">>
    /\ Addressed
    /\ DispatchedText = Some(<<":">>)

C7_WitnessNotAddressed ==
    /\ Classified
    /\ event[1]["channel_type"] = "group"
    /\ Body = <<"U", "b">>
    /\ ~Addressed

\* C8: outside channels and groups every message of another user is dispatched
\* with the responders among the candidates; its text is the pattern's remainder
\* when the pattern matches the body and the event is left as it was otherwise.
C8_DirectMessageAlwaysAddressed ==
    (/\ event # None
     /\ Has(event[1], "user")
     /\ event[1]["user"] # BotId
     /\ event[1]["channel_type"] \notin {"channel", "group"})
    => /\ Classified
       /\ Addressed
       /\ LET m == MatcherMatch(generate_message_matcher(settings), Body)
          IN  IF m # None
              THEN /\ DispatchedText = m[1].text
                   /\ \A k \in (DOMAIN event[1]) \ {"text"} : call[1].event[k] = event[1][k]
              ELSE call[1].event = event[1]

C8_Witness ==
    /\ Classified
    /\ event[1]["channel_type"] = "im"
    /\ Body = <<"U", "<">>
    /\ DispatchedText = Some(<<"U", "<">>)
    /\ Addressed
    /\ "R2" \in Attempted

C8_WitnessStripped ==
    /\ Classified
    /\ event[1]["channel_type"] = "im"
    /\ Body = <<"<", "@", "a", ">", "b">>
    /\ DispatchedText = Some(<<"b">>)
    /\ Addressed

\* C9 as stated: a channel or group message of another user that is not addressed
\* is dispatched to the listeners alone, and every listener that takes the event
\* and whose pattern is found in its text is called.
C9_AmbientMessageReachesListeners ==
    (Classified /\ InChannel /\ ~Addressed)
    => /\ Invoked \cap ResponderNames = {}
       /\ \A i \in DOMAIN ListenTo :
            (~SkipsEdit(call[1].event, ListenTo[i]) /\ PatternFound(call[1].event, ListenTo[i]))
            => ListenTo[i].name \in Invoked

\* C10 as stated: every action handler is called once for each action of the payload
\* that carries its action identifier, and for no other action.
C10_HandlerCalledOncePerMatchingAction ==
    (call # None /\ call[1].op = "dispatch_block_action_listeners")
    => \A h \in DOMAIN BlockActionReactTo : \A a \in DOMAIN request.payload.actions :
          Cardinality({k \in DOMAIN tasks :
                          tasks[k].handler = BlockActionReactTo[h].name /\ tasks[k].action = a})
          = IF request.payload.actions[a].action_id = BlockActionReactTo[h].action_id THEN 1 ELSE 0

\* ---- the generic-event claims
GenericDispatched == call # None /\ call[1].op = "dispatch_event_handlers"
RawEvent == request.payload.event
TaskHandlers == [i \in DOMAIN tasks |-> tasks[i].handler]

\* C11: for an acknowledged event envelope given to the generic handler, the
\* handlers called are exactly those registered for the event's type, each once
\* and in one call per handler, with the event as it arrived; by the time the
\* dispatch has returned every one of them has started; a type with no
\* registered handler leads to no dispatch and no call.
C11_RegisteredHandlersCalledOnce ==
    (transport = "generic_event_handler" /\ pc \notin {"start", "acked"} /\ acks = 1)
    => IF RawEvent.type \in DOMAIN Process
       THEN /\ GenericDispatched
            /\ call[1].event = RawEvent
            /\ TaskHandlers = Process[RawEvent.type]
            /\ \A h \in Range(Process[RawEvent.type]) :
                  Cardinality({i \in DOMAIN tasks : tasks[i].handler = h}) = 1
            /\ \A t \in (DOMAIN Process) \ {RawEvent.type} :
                  Range(Process[t]) \cap Invoked = {}
            /\ pc \in {"returned", "raised"} => \A i \in DOMAIN tasks : tasks[i].status # "scheduled"
       ELSE call = None /\ tasks = <<>> /\ pc = "returned"

C11_Witness ==
    /\ GenericDispatched
    /\ RawEvent.type = "reaction_added"
    /\ TaskHandlers = <<"P1", "P2">>
    /\ pc = "returned"
    /\ effects = {1, 2}

C11_WitnessUnregistered ==
    /\ transport = "generic_event_handler"
    /\ pc = "returned"
    /\ acks = 1
    /\ RawEvent.type = "pin_added"
    /\ call = None

\* ---- the acknowledgement claim
Accepted == request.type = Accepts(transport)

\* C12: for an envelope its transport handler accepts, one acknowledgement has been
\* sent in every state past the handler's entry, whatever became of the dispatch
\* (returned, raised, or still waiting for a handler); and every step that
\* classifies the event, builds a Message, or schedules or runs a handler starts
\* from a state in which the acknowledgement was already sent, and sends no other.
C12_AckBeforeHandlers ==
    /\ []((Accepted /\ pc # "start") => acks = 1)
    /\ []((event # None \/ call # None \/ tasks # <<>>) => acks = 1)
    /\ [][(event' # event \/ call' # call \/ tasks' # tasks \/ effects' # effects)
           => (acks = 1 /\ acks' = 1)]_vars

C12_Witness ==
    /\ acks = 1
    /\ pc = "raised"
    /\ Len(tasks) = 2
    /\ tasks[1].status = "failed"
    /\ tasks[2].status = "running"
    /\ 2 \notin effects

\* ---- the repeated-dispatch claim
\* the candidates of a dispatch_listeners call that take the event and whose
\* pattern is found in its text
Selected(c) ==
    {c.handlers[i] : i \in {k \in DOMAIN c.handlers :
        /\ ~SkipsEdit(c.event, HandlerNamed(c.handlers[k]))
        /\ PatternFound(c.event, HandlerNamed(c.handlers[k]))}}

Wrapped == request.payload.event

\* C14: a Message wraps the event it was built over, and after any sequence of
\* reads and sends it still wraps that event unchanged; each read returns what the
\* event and the directories hold - the user directory's entry for the event's
\* user, the channel directory's entry for its channel, its text, its ts, its
\* subtype or None, whether its channel identifier begins with neither "C" nor
\* "G", whether it has a thread_ts - and raises KeyError exactly when the field or
\* the directory entry it needs is missing.
C14_AccessorsReturnEventValues ==
    (message # None)
    => /\ message[1]._msg_event = Wrapped
       /\ result # None =>
            LET got == result[1].outcome
                acc == result[1].accessor
                user_known == Has(Wrapped, "user") /\ Wrapped["user"] \in KnownUsers
                channel_known == Has(Wrapped, "channel") /\ Wrapped["channel"] \in KnownChannels
            IN  CASE acc = "sender" ->
                       IF user_known
                       THEN got.error = None /\ got.value = UsersDirectory[Wrapped["user"]]
                                             /\ got.value.id = Wrapped["user"]
                       ELSE got.error = Some("KeyError")
                  [] acc = "channel" ->
                       IF channel_known
                       THEN got.error = None /\ got.value = ChannelsDirectory[Wrapped["channel"]]
                                             /\ got.value.id = Wrapped["channel"]
                       ELSE got.error = Some("KeyError")
                  [] acc = "text" ->
                       IF Has(Wrapped, "text")
                       THEN got.error = None /\ got.value = Wrapped["text"]
                       ELSE got.error = Some("KeyError")
                  [] acc = "ts" ->
                       IF Has(Wrapped, "ts")
                       THEN got.error = None /\ got.value = Wrapped["ts"]
                       ELSE got.error = Some("KeyError")
                  [] acc = "subtype" ->
                       /\ got.error = None
                       /\ got.value = IF Has(Wrapped, "subtype") THEN Some(Wrapped["subtype"]) ELSE None
                  [] acc = "is_dm" ->
                       IF Has(Wrapped, "channel")
                       THEN /\ got.error = None
                            /\ got.value = (Wrapped["channel"][1] \notin {"C", "G"})
                       ELSE got.error = Some("KeyError")
                  [] acc = "in_thread" ->
                       got.error = None /\ got.value = Has(Wrapped, "thread_ts")

C14_Witness ==
    /\ message # None
    /\ result # None
    /\ sent # None
    /\ result[1].accessor = "is_dm"
    /\ result[1].outcome.error = None
    /\ result[1].outcome.value = FALSE
    /\ Wrapped["channel"] = <<"G", "1">>
    /\ Has(Wrapped, "thread_ts")

\* ---- the sender-lookup claims
CallsMade ==
    [i \in DOMAIN call[1].handler_funcs |->
        [handler |-> call[1].handler_funcs[i].handler, action |-> call[1].handler_funcs[i].action]]
MessageDispatched ==
    call # None /\ call[1].op \in {"dispatch_listeners", "dispatch_block_action_listeners"}
UnknownSender == Has(call[1].event, "user") /\ call[1].event["user"] \notin KnownUsers

\* C15 as stated: when the sender of a dispatched event is unknown to the user
\* directory, the dispatch loop itself does not fail: every handler selected for
\* the event (every listener or responder that takes it and whose pattern is
\* found, every action handler for each action carrying its identifier) is called.
C15_UnknownSenderFailsOneHandlerOnly ==
    (MessageDispatched /\ UnknownSender /\ pc \in {"returned", "raised"})
    => /\ call[1].attempted = CallsMade
       /\ IF call[1].op = "dispatch_listeners"
          THEN Selected(call[1]) \subseteq Invoked
          ELSE \A h \in DOMAIN BlockActionReactTo : \A a \in DOMAIN call[1].event.actions :
                  call[1].event.actions[a].action_id = BlockActionReactTo[h].action_id
                  => \E k \in DOMAIN tasks :
                        tasks[k].handler = BlockActionReactTo[h].name /\ tasks[k].action = a

SomeListenerSelected(ev) ==
    \E i \in DOMAIN ListenTo : ~SkipsEdit(ev, ListenTo[i]) /\ PatternFound(ev, ListenTo[i])

\* C16 as stated: a message event without a user field, for which some listener
\* would be selected, is dispatched and fails where the sender is resolved.
C16_MissingSenderFailsAtLookup ==
    (event # None /\ ~Has(event[1], "user") /\ SomeListenerSelected(event[1]))
    => (call # None /\ pc = "raised" /\ error = Some("KeyError"))

\* C16 as amended: a message event without a user field, fresh or edited, is
\* filtered out by handle_message: it is not classified, nothing is dispatched,
\* no Message is built, and handle_message returns without an error.
C16_MissingSenderFilteredOut ==
    (event # None /\ ~Has(event[1], "user"))
    => (call = None /\ Attempted = {} /\ tasks = <<>> /\ pc = "returned" /\ error = None)

C16_Witness ==
    /\ event # None
    /\ ~Has(event[1], "user")
    /\ SomeListenerSelected(event[1])
    /\ event[1]["channel_type"] = "channel"
    /\ ~Has(event[1], "subtype")
    /\ pc = "returned"
    /\ call = None

\* ---- the say and reply claims
\* the last say or reply made a call of the client
CallMade == sent # None /\ sent[1].outcome.error = None
ClientCall == sent[1].outcome.value
Replied == CallMade /\ sent[1].op \in {"reply", "reply_scheduled"}
Said == CallMade /\ sent[1].op \in {"say", "say_scheduled"}
BothRequested == sent[1].ephemeral /\ (sent[1].in_thread \/ sent[1].thread_ts # None)

C17_WitnessSay ==
    /\ Said
    /\ sent[1].op = "say"
    /\ ClientCall.thread_ts = Some("9")
    /\ ClientCall.ephemeral_user = Some(OtherUser)

\* the text of a reply with and without the mention of the sender
Prefixed == fmt_mention([id |-> Wrapped["user"]]) \o <<":", " ">> \o ReplyText
InDirectMessage == Wrapped["channel"][1] \notin {"C", "G"}

\* C18 as stated: reply (and reply_scheduled) sends the text with the mention of
\* the sender in front exactly when in_thread was not asked for and the channel is
\* not a direct-message channel, whatever ephemeral is.
C18_PrefixedUnlessInThreadOrDm ==
    Replied
    => ClientCall.text = IF ~sent[1].in_thread /\ ~InDirectMessage THEN Prefixed ELSE ReplyText

\* C18 as amended: the mention is in front exactly when the reply is not sent into
\* the thread - in_thread was not asked for, or ephemeral was asked for with it -
\* and the channel is not a direct-message channel.
C18_PrefixedUnlessThreadedOrDm ==
    Replied
    => ClientCall.text = IF ~(sent[1].in_thread /\ ~sent[1].ephemeral) /\ ~InDirectMessage
                         THEN Prefixed ELSE ReplyText

C18_Witness ==
    /\ Replied
    /\ sent[1].op = "reply"
    /\ sent[1].in_thread
    /\ sent[1].ephemeral
    /\ Wrapped["channel"] = <<"C", "1">>
    /\ ClientCall.text = <<"<", "@", "a", ">", ":", " ", "h", "i">>

C18_WitnessDirectMessage ==
    /\ Replied
    /\ ~sent[1].in_thread
    /\ Wrapped["channel"] = <<"D", "1">>
    /\ ClientCall.text = ReplyText

\* ---- the edited-message claim
EditDispatched ==
    Classified /\ Has(call[1].event, "subtype") /\ call[1].event["subtype"] = "message_changed"

\* C19: when an edited message is dispatched, no Message is built for and no call
\* is made of a candidate that did not opt in to edits, whether or not its pattern
\* is found in the text; among the candidates that opted in, the pattern alone
\* decides: the loop reaches the first of them, in order, whose pattern is found,
\* and reaches none when none's pattern is found.
C19_EditsOnlyToOptedInHandlers ==
    EditDispatched
    => LET cands == Descriptors(call[1].handlers)
           taking == {i \in DOMAIN cands :
                        cands[i].handle_message_changed /\ PatternFound(call[1].event, cands[i])}
       IN  /\ \A i \in DOMAIN cands :
                ~cands[i].handle_message_changed => cands[i].name \notin (Attempted \cup Invoked)
           /\ IF taking = {}
              THEN call[1].attempted = <<>>
              ELSE /\ call[1].attempted # <<>>
                   /\ call[1].attempted[1].handler =
                        cands[CHOOSE i \in taking : \A j \in taking : i <= j].name

C19_Witness ==
    /\ EditDispatched
    /\ PatternFound(call[1].event, ListenTo[1])
    /\ ~ListenTo[1].handle_message_changed
    /\ Attempted = {"L2"}
    /\ call[1].handlers = <<"L1", "L2">>

\* ---- the failure-visibility claim
Failed == {i \in DOMAIN tasks : tasks[i].status = "failed"}
\* the handler failures the caller of the dispatch operation gets to see
VisibleFailures == IF gather_exception = None THEN {} ELSE {gather_exception[1]}

\* C20 as stated: once the dispatch call has returned to its caller with handlers
\* having failed, every failed handler's failure is among those the caller sees.
C20_EveryFailureVisible ==
    (pc = "raised" /\ tasks # <<>>) => Failed \subseteq VisibleFailures

\* C20 as amended: the caller sees one failure, that of the handler that failed
\* first; it is set when the first handler fails and no later failure replaces it
\* or is added to it; the effects of the handlers that succeeded stay.
C20_OnlyFirstFailureVisible ==
    /\ []((pc = "raised" /\ tasks # <<>>)
          => (Cardinality(VisibleFailures) = 1 /\ VisibleFailures \subseteq Failed))
    /\ []((Failed = {}) <=> (VisibleFailures = {}))
    /\ [][gather_exception # None => gather_exception' = gather_exception]_vars
    /\ [][effects \subseteq effects']_vars

C20_Witness ==
    /\ pc = "raised"
    /\ Len(tasks) = 2
    /\ Failed = {1, 2}
    /\ gather_exception = Some(2)

\* ---- the Message-construction and log-flag claims
\* C21 as stated: a dispatch that built a Message for a selected handler did not
\* end with the constructor's TypeError, and every handler a Message was built
\* for was called.
C21_MessageConstructionSucceeds ==
    (MessageDispatched /\ call[1].attempted # <<>>)
    => /\ error # Some("TypeError")
       /\ Len(call[1].handler_funcs) = Len(call[1].attempted)

LogFlag == settings["LOG_HANDLED_MESSAGES"]
\* what the loop of the dispatch call made would do under a given log flag
LoopUnder(flag) ==
    IF call[1].op = "dispatch_listeners"
    THEN ListenerLoop(call[1].event, Descriptors(call[1].handlers), flag, <<>>, <<>>)
    ELSE BlockActionLoop(call[1].event, ActionPairs(call[1].event, BlockActionReactTo), flag,
                         <<>>, <<>>)

\* C22: for every dispatched message event and block-action payload, the calls
\* made and the error the dispatch ends with are those the same dispatch makes
\* and ends with under the opposite setting of LOG_HANDLED_MESSAGES.
C22_LogFlagChangesNothing ==
    MessageDispatched
    => LET other == LoopUnder(~LogFlag)
       IN  /\ other.handler_funcs = call[1].handler_funcs
           /\ other.attempted = call[1].attempted
           /\ (other.error = None) = (pc # "raised")
           /\ pc = "raised" => other.error = error

C22_Witness ==
    /\ MessageDispatched
    /\ LogFlag
    /\ call[1].op = "dispatch_listeners"
    /\ ~Has(call[1].event, "text")
    /\ Attempted = {"R2"}
    /\ pc = "raised"

C22_WitnessInteractive ==
    /\ MessageDispatched
    /\ LogFlag
    /\ call[1].op = "dispatch_block_action_listeners"
    /\ Attempted = {"A1"}
    /\ pc = "raised"


\* ---- the per-invocation claims
ListenersDispatched == call # None /\ call[1].op = "dispatch_listeners"
NamedGroups(h) == IF h.group = None THEN {} ELSE {h.group[1]}

NoEventObjectShared ==
    \A i, j \in DOMAIN call[1].handler_funcs :
        i # j => call[1].handler_funcs[i].event_object # call[1].handler_funcs[j].event_object

\* C24 as stated: every handler a Message is built for is given it, and no two
\* handlers called for one event are given, directly or inside their Message,
\* the same event object.
C24_NoSharedEventObject ==
    call # None
    => /\ MessageDispatched
          => \A i \in DOMAIN call[1].attempted : \E k \in DOMAIN CallsMade :
                 CallsMade[k] = call[1].attempted[i]
       /\ NoEventObjectShared


\* ---- the scheduling-order claim
IsSelected(name) == name \in Selected(call[1])
ActionMatches(pair) ==
    pair.handler.action_id = call[1].event["actions"][pair.action]["action_id"]
NamedCalls(names) == [i \in DOMAIN names |-> [handler |-> names[i], action |-> 0]]
PairCalls(pairs) == [i \in DOMAIN pairs |-> [handler |-> pairs[i].handler.name, action |-> pairs[i].action]]
\* the handlers selected for the dispatched event, in registry iteration order
SelectedInOrder ==
    IF call[1].op = "dispatch_listeners"
    THEN NamedCalls(SelectSeq(call[1].handlers, IsSelected))
    ELSE IF call[1].op = "dispatch_block_action_listeners"
    THEN PairCalls(SelectSeq(ActionPairs(call[1].event, BlockActionReactTo), ActionMatches))
    ELSE NamedCalls(Process[call[1].event["type"]])
Scheduled == [i \in DOMAIN tasks |-> [handler |-> tasks[i].handler, action |-> tasks[i].action]]

\* C25 as stated: the handlers scheduled for a dispatched event are the selected
\* ones in registry iteration order (for a message event the listeners in
\* insertion order, then the responders when the message is addressed; for a
\* block-action payload handler by handler and, within a handler, action by
\* action), and they start in that order.
C25_ScheduledInIterationOrder ==
    call # None
    => /\ call[1].op = "dispatch_listeners"
          => call[1].handlers \in {Names(ListenTo), Names(ListenTo) \o Names(RespondTo)}
       /\ Scheduled = SelectedInOrder
       /\ \A i, j \in DOMAIN tasks :
              (i < j /\ tasks[j].status # "scheduled") => tasks[i].status # "scheduled"


\* ---- the no-match claim
\* C26: a message event or block-action payload for which no handler is selected
\* (no pattern found, no action identifier matching, an edit no handler with a
\* matching pattern opted in to) is dispatched without a Message being built and
\* without a call: the dispatch has returned, with no error and no task.
C26_NoMatchIsNoError ==
    (MessageDispatched /\ SelectedInOrder = <<>>)
    => /\ pc = "returned"
       /\ error = None
       /\ gather = "result"
       /\ tasks = <<>>
       /\ call[1].attempted = <<>>
       /\ call[1].handler_funcs = <<>>

\* an edit whose text holds the pattern of L1, which did not opt in to edits
C26_Witness ==
    /\ ListenersDispatched
    /\ SelectedInOrder = <<>>
    /\ Has(call[1].event, "subtype") /\ call[1].event["subtype"] = "message_changed"
    /\ PatternFound(call[1].event, ListenTo[1])
    /\ pc = "returned"

\* a payload whose actions carry no registered identifier
C26_WitnessPayload ==
    /\ MessageDispatched
    /\ call[1].op = "dispatch_block_action_listeners"
    /\ Len(call[1].event["actions"]) = MaxActions
    /\ SelectedInOrder = <<>>
    /\ pc = "returned"

\* ambient chatter: a channel message that is not an edit and holds no pattern
C26_WitnessChatter ==
    /\ ListenersDispatched
    /\ ~Has(call[1].event, "subtype")
    /\ Has(call[1].event, "text") /\ call[1].event["text"] # <<>>
    /\ Candidates = Range(Names(ListenTo))
    /\ SelectedInOrder = <<>>
    /\ pc = "returned"


\* ---- the envelope-category claim
\* C27: past its entry a transport handler has sent one acknowledgement for an
\* envelope of its own type (events_api for the message and generic-event
\* handlers, interactive for the block-action handler) and none for any other;
\* the acknowledgement is sent at entry, before any event is classified or
\* dispatched; an envelope of another type leads to no classification, dispatch,
\* call or effect; and an events_api envelope whose event is not a message is
\* acknowledged by the message handler and dispatched to nothing.
C27_OwnCategoryOnly ==
    /\ []((pc # "start") => (acks = IF Accepted THEN 1 ELSE 0))
    /\ []((pc = "start") => (acks = 0 /\ event = None /\ call = None /\ tasks = <<>>))
    /\ []((~Accepted) => (event = None /\ call = None /\ tasks = <<>> /\ effects = {}))
    /\ []((transport = "message_handler" /\ Accepted /\ RawEvent.type # "message")
          => (event = None /\ call = None /\ tasks = <<>>))
    /\ [][(acks' # acks) => (pc = "start" /\ Accepted /\ acks' = 1 /\ call' = None)]_vars

\* the message handler has acknowledged and left an event that is not a message
C27_Witness ==
    /\ transport = "message_handler"
    /\ Accepted
    /\ RawEvent.type = "reaction_added"
    /\ acks = 1
    /\ pc = "returned"
    /\ call = None

\* a handler has left an envelope of another type
C27_WitnessOtherType ==
    /\ transport = "block_actions_handler"
    /\ request.type = "events_api"
    /\ pc = "returned"
    /\ acks = 0


\* ---- the text-rewriting claim
\* the handlers of a list whose pattern occurs in a text, in the list's order
FoundInText(handlers, t) ==
    LET Found(h) == Search(h.regex, t) IN Names(SelectSeq(handlers, Found))
\* the loop built a Message for the first handler of the sequence, if there is one
ReachedFirstOf(names) ==
    Attempted = IF names = <<>> THEN {} ELSE {names[1]}

\* C28: a channel or group message that is not addressed is dispatched as it
\* arrived, every field unchanged, and the listeners are matched against its
\* full text; one that is addressed is dispatched with its text replaced by the
\* remainder after the mention, every other field unchanged, and listeners and
\* responders alike are matched against that remainder.
C28_TextRewrittenOnlyWhenAddressed ==
    (Classified /\ InChannel)
    => IF Addressed
       THEN LET m == MatcherMatch(generate_message_matcher(settings), Body)
            IN  /\ m # None
                /\ DispatchedText = m[1].text
                /\ Len(DispatchedText[1]) < Len(Body)
                /\ \A k \in (DOMAIN event[1]) \ {"text"} : call[1].event[k] = event[1][k]
                /\ Candidates = Range(Names(ListenTo \o RespondTo))
                /\ ReachedFirstOf(FoundInText(ListenTo \o RespondTo, DispatchedText[1]))
       ELSE /\ call[1].event = event[1]
            /\ Candidates = Range(Names(ListenTo))
            /\ ReachedFirstOf(FoundInText(ListenTo, Body))

\* not addressed (the body names another user): L1's pattern occurs in the mention
\* only, and L1 is reached
C28_Witness ==
    /\ Classified
    /\ event[1]["channel_type"] = "channel"
    /\ Body = <<"a", ":", "U">>
    /\ ~Addressed
    /\ call[1].event = event[1]
    /\ Attempted = {"L1"}

\* addressed: L2's pattern occurs in the mention only, and the loop passes both
\* listeners and R1 and reaches R2
C28_WitnessAddressed ==
    /\ Classified
    /\ event[1]["channel_type"] = "channel"
    /\ Body = <<"b", ":", " ", "U">>
    /\ Addressed
    /\ DispatchedText = Some(<<"U">>)
    /\ Attempted = {"R2"}

=============================================================================
